---- MODULE Spec2Model ----
(***************************************************************************)
(* The rynko HTTP client's retry executor (src/rynko/http.py).             *)
(*                                                                         *)
(* Durations are whole seconds.  random.random() * max_jitter, a value of  *)
(* [0, max_jitter), is a whole number of 0 .. max_jitter-1 (0 when         *)
(* max_jitter = 0).  IEEE specials (a Retry-After of "nan" or "inf") are   *)
(* outside the number domain of the model.                                 *)
(***************************************************************************)
EXTENDS Integers, Sequences, FiniteSets, TLC

\* ------------------------------------------------------------------ bounds

MaxAttemptsBound == 3

\* the durations of the policies the retry loop is run under: initial_delay,
\* max_delay (below and above a Retry-After of 2) and max_jitter (no jitter,
\* and a jitter of 0 or 1)
InitialDelays == {0, 1}
MaxDelays == {1, 3}
MaxJitters == {0, 2}

\* bounds of the inputs of calculate_delay when it is run on its own
MaxCalcAttempt == 2
MaxCalcInitialDelay == 2
MaxCalcMaxDelay == 5
MaxCalcMaxJitter == 2
MaxCalcRetryAfter == 2

\* ------------------------------------------------------------- the inputs

\* HTTP status codes the server answers with
Statuses == {200, 404, 503}

\* RetryConfig: an unvalidated dataclass, so max_attempts = 0 and
\* initial_delay > max_delay can be constructed
RetryConfig ==
    [max_attempts : 0..MaxAttemptsBound,
     initial_delay : InitialDelays,
     max_delay : MaxDelays,
     max_jitter : MaxJitters,
     retryable_statuses : SUBSET Statuses]

\* raw response bodies: an object with both keys, an object with neither,
\* text that is not JSON, and JSON that is not an object
Bodies == {"{message:quota,error:RateLimited}", "{}", "<html>", "[]"}

\* Retry-After header of a response: absent, a number of seconds, an
\* HTTP-date (n = the date minus the clock, in seconds), or other text
RetryAfterHeaders ==
    {[kind |-> "absent", n |-> 0], [kind |-> "text", n |-> 0]}
      \cup [kind : {"seconds"}, n : {-1, 2}]
      \cup [kind : {"date"}, n : {-1, 3}]

Responses == [status_code : Statuses, body : Bodies, retry_after : RetryAfterHeaders]

NoResponse == [status_code |-> 0, body |-> "", retry_after |-> [kind |-> "absent", n |-> 0]]

\* Optional[float]
None == [some |-> FALSE, v |-> 0]
Some(x) == [some |-> TRUE, v |-> x]

Min(a, b) == IF a <= b THEN a ELSE b

\* the values random.random() * config.max_jitter can take
Jitters(config) == IF config.max_jitter = 0 THEN {0} ELSE 0..(config.max_jitter - 1)

\* ------------------------------------------------------- the pure helpers

\* f"HTTP {response.status_code}"
HttpMessage(status_code) ==
    CASE status_code = 200 -> "HTTP 200"
      [] status_code = 404 -> "HTTP 404"
      [] status_code = 503 -> "HTTP 503"
      [] OTHER -> "HTTP ?"

\* calculate_delay with the cap missing on the Retry-After branch
calculate_delay_uncapped_hint(attempt, config, retry_after, jitter) ==
    IF retry_after.some
    THEN retry_after.v + jitter
    ELSE Min(config.initial_delay * (2 ^ attempt) + jitter, config.max_delay)

\* calculate_delay dividing by 2^attempt where the code multiplies
calculate_delay_halving(attempt, config, retry_after, jitter) ==
    IF retry_after.some
    THEN Min(retry_after.v + jitter, config.max_delay)
    ELSE Min(config.initial_delay \div (2 ^ attempt) + jitter, config.max_delay)

calculate_delay(attempt, config, retry_after, jitter) ==
    IF retry_after.some
    THEN Min(retry_after.v + jitter, config.max_delay)
    ELSE Min(config.initial_delay * (2 ^ attempt) + jitter, config.max_delay)

\* parse_retry_after without the float(retry_after) attempt: HTTP-dates only
parse_retry_after_dates_only(header) ==
    CASE header.kind = "date" -> IF header.n > 0 THEN Some(header.n) ELSE None
      [] OTHER -> None

parse_retry_after(header) ==
    CASE header.kind = "absent" -> None
      [] header.kind = "seconds" -> Some(header.n)
      [] header.kind = "date" -> IF header.n > 0 THEN Some(header.n) ELSE None
      [] OTHER -> None

should_retry(config, status_code) == status_code \in config.retryable_statuses

\* attempts_left counting one attempt too few
attempts_left_one_short(att, config) == att < config.max_attempts - 2

\* attempts_left counting one attempt too many: the last attempt sleeps too
attempts_left_one_more(att, config) == att < config.max_attempts

\* attempt < max_attempts - 1
attempts_left(att, config) == att < config.max_attempts - 1

\* response.json(): the decoded value, or the exception it raises
ResponseJson(body) ==
    CASE body = "{message:quota,error:RateLimited}" ->
            [raised |-> FALSE, type |-> "dict", keys |-> {"message", "error"},
             message |-> "quota", error |-> "RateLimited"]
      [] body = "{}" ->
            [raised |-> FALSE, type |-> "dict", keys |-> {}, message |-> "", error |-> ""]
      [] body = "[]" ->
            [raised |-> FALSE, type |-> "list", keys |-> {}, message |-> "", error |-> ""]
      [] OTHER ->
            [raised |-> TRUE, type |-> "", keys |-> {}, message |-> "", error |-> ""]

EmptyDict == [raised |-> FALSE, type |-> "dict", keys |-> {}, message |-> "", error |-> ""]

\* try: data = response.json() / except Exception: data = {}
DecodeOrEmpty(body) ==
    IF ResponseJson(body).raised THEN EmptyDict ELSE ResponseJson(body)

\* ---------------------------------------------------- what a call ends with

NoOutcome == [kind |-> "none", message |-> "", code |-> "", status_code |-> 0, data |-> EmptyDict]

Returned(data) ==
    [kind |-> "return", message |-> "", code |-> "", status_code |-> 0, data |-> data]

RynkoError(message, code, status_code) ==
    [kind |-> "RynkoError", message |-> message, code |-> code,
     status_code |-> status_code, data |-> EmptyDict]

\* an exception that is not a RynkoError: AttributeError (list.get),
\* ValueError (time.sleep of a negative length), TransportError (httpx)
Raised(kind) == [kind |-> kind, message |-> "", code |-> "", status_code |-> 0, data |-> EmptyDict]

\* RynkoError(data.get("message", f"HTTP {status}"), data.get("error", "ApiError"), status);
\* data.get raises AttributeError when data is a list
ErrorFrom(data, status_code) ==
    IF data.type # "dict"
    THEN Raised("AttributeError")
    ELSE RynkoError(IF "message" \in data.keys THEN data.message ELSE HttpMessage(status_code),
                    IF "error" \in data.keys THEN data.error ELSE "ApiError",
                    status_code)

handle_response(response) ==
    IF response.status_code >= 400
    THEN ErrorFrom(DecodeOrEmpty(response.body), response.status_code)
    ELSE Returned(DecodeOrEmpty(response.body))

\* an except clause that retries whatever is raised while attempts are left
retries_any_exception(exc, config, att) == attempts_left(att, config)

\* except RynkoError as e: if self._should_retry(e.status_code) and attempt < max_attempts - 1
retries_exception(exc, config, att) ==
    /\ exc.kind = "RynkoError"
    /\ should_retry(config, exc.status_code)
    /\ attempts_left(att, config)

\* the statements after the attempt loop
AfterLoop(last_err) ==
    IF last_err.kind = "RynkoError"
    THEN last_err
    ELSE RynkoError("Request failed after retries", "RetryExhausted", 0)

\* --------------------------------------------------------------- the state

VARIABLES
    retry_config,   \* self._retry_config
    pc,             \* "start", "request", "sleep", "done"
    attempt,        \* the loop variable
    response,       \* the response of the latest request
    delay,          \* the latest value of calculate_delay
    last_error,     \* the stored error, NoOutcome for None
    outcome,        \* what the call returned or raised
    requests,       \* number of calls of self._client.request
    sleeps,         \* number of calls of time.sleep
    statuses,       \* status codes of the responses received, in order
    hinted,         \* some response so far carried a Retry-After header
    init_headers,   \* the headers argument HttpClient.__init__ was given
    headers,        \* self._headers
    sent,           \* the headers passed to self._client.request, call by call
    calc_config,    \* calculate_delay on its own: the policy
    calc_calls,     \* calculate_delay on its own: the calls made
    client,         \* AsyncHttpClient: self._retry_config and self._headers
    tasks,          \* AsyncHttpClient: the frame of each running _request_with_retry
    histories,      \* AsyncHttpClient: what each running call was given, in order
    now,            \* verify_webhook_signature: time.time(), in whole seconds
    verify_calls,   \* verify_webhook_signature: the calls made
    objects,        \* the RetryConfig objects alive, by identity
    http_clients,   \* the HttpClient objects constructed: what self._retry_config refers to
    key_calls,      \* verify_api_key: the calls made
    resource,       \* wait_for_completion: the class it is a method of
    poll_interval,  \* wait_for_completion: the argument
    timeout,        \* wait_for_completion: the argument
    wait_pc,        \* wait_for_completion: "start", "poll", "sleep", "done"
    wall,           \* wait_for_completion: time.time(), in whole seconds
    start_time,     \* wait_for_completion: the local variable
    job,            \* wait_for_completion: the local variable
    polls,          \* wait_for_completion: number of calls of get_job
    naps,           \* wait_for_completion: number of calls of sleep
    wait_outcome,   \* wait_for_completion: what the call returned or raised
    rb_client,      \* renderbase HttpClient or AsyncHttpClient
    rb_pc,          \* renderbase client: "idle", "request", "done"
    rb_method,      \* renderbase client: the method called
    rb_calls,       \* renderbase client: number of calls of get/post/put/patch/delete
    rb_requests,    \* renderbase client: number of calls of self._client.<method>
    rb_response,    \* renderbase client: the response of the latest call
    rb_outcome      \* renderbase client: what the latest call returned or raised

vars == <<retry_config, pc, attempt, response, delay, last_error, outcome,
          requests, sleeps, statuses, hinted, init_headers, headers, sent,
          calc_config, calc_calls,
          client, tasks, histories, now, verify_calls, objects, http_clients, key_calls,
          resource, poll_interval, timeout, wait_pc, wall, start_time, job, polls, naps,
          wait_outcome, rb_client, rb_pc, rb_method, rb_calls, rb_requests, rb_response,
          rb_outcome>>

loop_vars == <<retry_config, pc, attempt, response, delay, last_error, outcome,
               requests, sleeps, statuses, hinted, init_headers, headers, sent>>

calc_vars == <<calc_config, calc_calls>>

async_vars == <<client, tasks, histories>>

webhook_vars == <<now, verify_calls>>

policy_vars == <<objects, http_clients>>

key_vars == <<key_calls>>

wait_vars == <<resource, poll_interval, timeout, wait_pc, wall, start_time, job, polls,
               naps, wait_outcome>>

rb_vars == <<rb_client, rb_pc, rb_method, rb_calls, rb_requests, rb_response, rb_outcome>>

\* what the steps of one part of the program leave alone: the other parts
not_loop_vars ==
    <<calc_vars, async_vars, webhook_vars, policy_vars, key_vars, wait_vars, rb_vars>>
not_calc_vars ==
    <<loop_vars, async_vars, webhook_vars, policy_vars, key_vars, wait_vars, rb_vars>>
not_async_vars ==
    <<loop_vars, calc_vars, webhook_vars, policy_vars, key_vars, wait_vars, rb_vars>>
not_webhook_vars ==
    <<loop_vars, calc_vars, async_vars, policy_vars, key_vars, wait_vars, rb_vars>>
not_policy_vars ==
    <<loop_vars, calc_vars, async_vars, webhook_vars, key_vars, wait_vars, rb_vars>>
not_key_vars ==
    <<loop_vars, calc_vars, async_vars, webhook_vars, policy_vars, wait_vars, rb_vars>>
not_wait_vars ==
    <<loop_vars, calc_vars, async_vars, webhook_vars, policy_vars, key_vars, rb_vars>>
not_rb_vars ==
    <<loop_vars, calc_vars, async_vars, webhook_vars, policy_vars, key_vars, wait_vars>>

DefaultConfig ==
    [max_attempts |-> 1, initial_delay |-> 0, max_delay |-> 0, max_jitter |-> 0,
     retryable_statuses |-> {}]

LoopIdle ==
    /\ pc = "start"
    /\ attempt = 0
    /\ response = NoResponse
    /\ delay = 0
    /\ last_error = NoOutcome
    /\ outcome = NoOutcome
    /\ requests = 0
    /\ sleeps = 0
    /\ statuses = << >>
    /\ hinted = FALSE
    /\ sent = << >>

\* the headers HttpClient.__init__ starts from, for the api_key "key"
default_headers ==
    [k \in {"Content-Type", "Authorization", "User-Agent"} |->
        CASE k = "Content-Type" -> "application/json"
          [] k = "Authorization" -> "Bearer key"
          [] OTHER -> "rynko-python/1.0.0"]

\* headers=None, or headers={}
NoHeaders == [k \in {} |-> ""]

\* the headers argument of HttpClient.__init__: none, a new key, a default
\* key with another value, both, and a default key in another letter case
CallerHeaders ==
    {NoHeaders,
     [k \in {"X-Request-Id"} |-> "r1"],
     [k \in {"Authorization"} |-> "Basic abc"],
     [k \in {"X-Request-Id", "User-Agent"} |-> IF k = "User-Agent" THEN "app/2" ELSE "r1"],
     [k \in {"content-type"} |-> "text/plain"]}

\* the caller's headers in place of the defaults, where the code merges
replace_headers(defaults, caller) == IF caller = NoHeaders THEN defaults ELSE caller

\* {**defaults, **(headers or {})}: the caller's value where it names a key
merge_headers(defaults, caller) ==
    [k \in DOMAIN defaults \cup DOMAIN caller |->
        IF k \in DOMAIN caller THEN caller[k] ELSE defaults[k]]

\* self._headers = {...defaults..., **(headers or {})}
HeadersBuilt(caller) ==
    /\ init_headers = caller
    /\ headers = merge_headers(default_headers, caller)

HeadersIdle == HeadersBuilt(NoHeaders)

\* headers = {"Authorization": ..., "Content-Type": ..., "User-Agent": ...}
DefaultHeaders ==
    [Authorization |-> "Bearer key", ContentType |-> "application/json",
     UserAgent |-> "rynko-python"]

CalcIdle ==
    /\ calc_config = DefaultConfig
    /\ calc_calls = << >>

AsyncIdle ==
    /\ client = [retry_config |-> DefaultConfig, headers |-> DefaultHeaders]
    /\ tasks = << >>
    /\ histories = << >>

WebhookIdle ==
    /\ now = 0
    /\ verify_calls = << >>

PolicyIdle ==
    /\ objects = << >>
    /\ http_clients = << >>

KeyIdle == key_calls = << >>

\* no job is polled
NoJob == [status |-> "", poll |-> 0]

NoWaitOutcome == [kind |-> "none", job |-> NoJob]

WaitIdle ==
    /\ resource = "DocumentsResource"
    /\ poll_interval = 1
    /\ timeout = 0
    /\ wait_pc = "start"
    /\ wall = 0
    /\ start_time = 0
    /\ job = NoJob
    /\ polls = 0
    /\ naps = 0
    /\ wait_outcome = NoWaitOutcome

RenderbaseIdle ==
    /\ rb_client = "HttpClient"
    /\ rb_pc = "idle"
    /\ rb_method = ""
    /\ rb_calls = 0
    /\ rb_requests = 0
    /\ rb_response = NoResponse
    /\ rb_outcome = NoOutcome

Init ==
    /\ retry_config \in RetryConfig
    /\ LoopIdle
    /\ HeadersIdle
    /\ CalcIdle
    /\ AsyncIdle
    /\ WebhookIdle
    /\ PolicyIdle
    /\ KeyIdle
    /\ WaitIdle
    /\ RenderbaseIdle

\* ------------------------------------------------------------- the actions

\* the call ends: it returns or raises `result`
Finish(result) ==
    /\ pc' = "done"
    /\ outcome' = result

\* max_attempts = ...; last_error = None; for attempt in range(max_attempts):
Start ==
    /\ pc = "start"
    /\ attempt' = 0
    /\ IF retry_config.max_attempts > 0
       THEN /\ pc' = "request"
            /\ UNCHANGED outcome
       ELSE Finish(AfterLoop(last_error))
    /\ UNCHANGED <<retry_config, response, delay, last_error, requests, sleeps,
                   statuses, hinted, init_headers, headers, sent, not_loop_vars>>

\* time.sleep(d) is called with last_error = err
CallSleep(err, d) ==
    /\ last_error' = err
    /\ delay' = d
    /\ sleeps' = sleeps + 1
    /\ pc' = "sleep"
    /\ UNCHANGED outcome

\* `exc` is raised inside the try block, where last_error = err and delay = d:
\* the except clause retries it or raises it again.  An iteration draws
\* random.random() once at most (the draw of the except clause needs a
\* retryable RynkoError and attempts left, and then the loop has already
\* continued), so `jitter` is the iteration's one draw.
TryRaises(exc, jitter, err, d) ==
    IF retries_exception(exc, retry_config, attempt)
    THEN CallSleep(exc, calculate_delay(attempt, retry_config, None, jitter))
    ELSE /\ Finish(exc)
         /\ last_error' = err
         /\ delay' = d
         /\ UNCHANGED sleeps

\* return self._handle_response(response)
ReturnHandled(r, jitter, err, d) ==
    LET result == handle_response(r) IN
    IF result.kind = "return"
    THEN /\ Finish(result)
         /\ last_error' = err
         /\ delay' = d
         /\ UNCHANGED sleeps
    ELSE TryRaises(result, jitter, err, d)

\* one iteration of the loop, from self._client.request returning `r` up to
\* the call of time.sleep, the return or the raise
Request(r, jitter) ==
    /\ pc = "request"
    /\ response' = r
    /\ requests' = requests + 1
    /\ statuses' = Append(statuses, r.status_code)
    /\ hinted' = (hinted \/ r.retry_after.kind # "absent")
    /\ IF should_retry(retry_config, r.status_code)
       THEN LET retry_after == parse_retry_after(r.retry_after)
                d == calculate_delay(attempt, retry_config, retry_after, jitter)
                err == ErrorFrom(DecodeOrEmpty(r.body), r.status_code)
            IN IF err.kind # "RynkoError"
               THEN TryRaises(err, jitter, last_error, d)
               ELSE IF attempts_left(attempt, retry_config)
                    THEN CallSleep(err, d)
                    ELSE ReturnHandled(r, jitter, err, d)
       ELSE ReturnHandled(r, jitter, last_error, delay)
    /\ sent' = Append(sent, headers)
    /\ UNCHANGED <<retry_config, attempt, init_headers, headers, not_loop_vars>>

\* self._client.request raises: no response was obtained
RequestFails(jitter) ==
    /\ pc = "request"
    /\ requests' = requests + 1
    /\ TryRaises(Raised("TransportError"), jitter, last_error, delay)
    /\ sent' = Append(sent, headers)
    /\ UNCHANGED <<retry_config, attempt, response, statuses, hinted, init_headers,
                   headers, not_loop_vars>>

\* time.sleep(delay) ends (it raises ValueError, which is no RynkoError, for a
\* negative length), then continue: the next iteration or the end of the loop
Sleep ==
    /\ pc = "sleep"
    /\ IF delay < 0
       THEN /\ Finish(Raised("ValueError"))
            /\ UNCHANGED attempt
       ELSE /\ attempt' = attempt + 1
            /\ IF attempt + 1 < retry_config.max_attempts
               THEN /\ pc' = "request"
                    /\ UNCHANGED outcome
               ELSE Finish(AfterLoop(last_error))
    /\ UNCHANGED <<retry_config, response, delay, last_error, requests, sleeps,
                   statuses, hinted, init_headers, headers, sent, not_loop_vars>>

Next ==
    \/ Start
    \/ \E r \in Responses, jitter \in Jitters(retry_config) : Request(r, jitter)
    \/ \E jitter \in Jitters(retry_config) : RequestFails(jitter)
    \/ Sleep

Spec == Init /\ [][Next]_vars

\* ------------------------------------------- calculate_delay on its own

\* the policies calculate_delay is run under (it reads the three durations)
CalcConfigs ==
    [max_attempts : {1},
     initial_delay : 0..MaxCalcInitialDelay,
     max_delay : 0..MaxCalcMaxDelay,
     max_jitter : 0..MaxCalcMaxJitter,
     retryable_statuses : {{}}]

\* the values of retry_after: None, or what parse_retry_after returns
CalcRetryAfters == {None} \cup {Some(x) : x \in -1..MaxCalcRetryAfter}

CalcInit ==
    /\ retry_config = DefaultConfig
    /\ LoopIdle
    /\ calc_config \in CalcConfigs
    /\ calc_calls = << >>
    /\ HeadersIdle
    /\ AsyncIdle
    /\ WebhookIdle
    /\ PolicyIdle
    /\ KeyIdle
    /\ WaitIdle
    /\ RenderbaseIdle

\* one call of _calculate_delay(att, config, retry_after); two calls are kept
Calc(att, retry_after, jitter) ==
    /\ Len(calc_calls) < 2
    /\ calc_calls' = Append(calc_calls,
                            [attempt |-> att, retry_after |-> retry_after, jitter |-> jitter,
                             delay |-> calculate_delay(att, calc_config, retry_after, jitter)])
    /\ UNCHANGED <<calc_config, not_calc_vars>>

CalcNext ==
    \E att \in 0..MaxCalcAttempt, retry_after \in CalcRetryAfters,
       jitter \in Jitters(calc_config) : Calc(att, retry_after, jitter)

SpecDelay == CalcInit /\ [][CalcNext]_vars

\* ------------------------------------------------------------- the claims

Done == pc = "done"

\* every request so far was answered, and every answer had status s
AllAnswered(s) ==
    /\ statuses # << >>
    /\ requests = Len(statuses)
    /\ \A i \in DOMAIN statuses : statuses[i] = s

LastStatus == statuses[Len(statuses)]

\* the error the code builds from the latest response
ErrorOfResponse == ErrorFrom(DecodeOrEmpty(response.body), response.status_code)

\* C1: when the server answers every attempt with one status of
\* retryable_statuses, the call ends after exactly max_attempts requests by
\* raising the RynkoError of the final response (its message, code, status).
C1_ExhaustionRaisesFinalError ==
    \A s \in retry_config.retryable_statuses :
        (Done /\ AllAnswered(s)) =>
            /\ requests = retry_config.max_attempts
            /\ outcome.kind = "RynkoError"
            /\ outcome = ErrorOfResponse

\* C2: a first response with a status >= 400 outside retryable_statuses ends
\* the call after 1 request and no sleep with a RynkoError of that status.
C2_NonRetryableFailsFast ==
    (/\ statuses # << >>
     /\ statuses[1] >= 400
     /\ statuses[1] \notin retry_config.retryable_statuses) =>
        /\ Done
        /\ requests = 1
        /\ sleeps = 0
        /\ outcome.kind = "RynkoError"
        /\ outcome.status_code = statuses[1]

\* C3: a RynkoError whose status is in retryable_statuses reaches the caller
\* only when the number of requests made equals max_attempts.
C3_RetryableErrorOnlyWhenExhausted ==
    (/\ outcome.kind = "RynkoError"
     /\ outcome.status_code \in retry_config.retryable_statuses) =>
        /\ Done
        /\ requests = retry_config.max_attempts

C3_Witness ==
    /\ Done
    /\ outcome.kind = "RynkoError"
    /\ outcome.status_code \in retry_config.retryable_statuses
    /\ requests = 3
    /\ sleeps = 2

\* C4: under every policy and at every attempt, a response with status < 400
\* is the last event of the call: the call has returned its decoded body, and
\* no sleep and no request follows it.
C4_SuccessReturnsImmediately ==
    \A i \in DOMAIN statuses :
        statuses[i] < 400 =>
            /\ i = Len(statuses)
            /\ requests = i
            /\ Done
            /\ outcome = Returned(DecodeOrEmpty(response.body))

\* C5: when the first k responses have retryable statuses >= 400 and response
\* k+1 has a status < 400, the call has returned the body of response k+1
\* after k+1 requests and k sleeps.
C5_SuccessAfterRetries ==
    (/\ statuses # << >>
     /\ requests = Len(statuses)
     /\ LastStatus < 400
     /\ \A i \in 1..(Len(statuses) - 1) :
           statuses[i] >= 400 /\ statuses[i] \in retry_config.retryable_statuses) =>
        /\ Done
        /\ outcome = Returned(DecodeOrEmpty(response.body))
        /\ requests = Len(statuses)
        /\ sleeps = Len(statuses) - 1

ExponentialPair(i, j) ==
    /\ ~calc_calls[i].retry_after.some
    /\ ~calc_calls[j].retry_after.some
    /\ calc_calls[i].attempt < calc_calls[j].attempt

\* C7 as claimed: with initial_delay <= max_delay, for attempt indices i < j
\* on the exponential branch and independent jitter draws, delay(i) <= delay(j).
C7_MonotoneAnyJitter ==
    calc_config.initial_delay <= calc_config.max_delay =>
        \A i, j \in DOMAIN calc_calls :
            ExponentialPair(i, j) => calc_calls[i].delay <= calc_calls[j].delay

\* C7 as amended: the same, for the policies with max_jitter <= initial_delay.
C7_MonotoneSmallJitter ==
    (/\ calc_config.initial_delay <= calc_config.max_delay
     /\ calc_config.max_jitter <= calc_config.initial_delay) =>
        \A i, j \in DOMAIN calc_calls :
            ExponentialPair(i, j) => calc_calls[i].delay <= calc_calls[j].delay

C7_Witness ==
    /\ calc_config.initial_delay <= calc_config.max_delay
    /\ calc_config.max_jitter <= calc_config.initial_delay
    /\ Len(calc_calls) = 2
    /\ ExponentialPair(1, 2)
    /\ calc_calls[1].jitter > calc_calls[2].jitter
    /\ calc_calls[2].delay < calc_config.max_delay

\* the call sleeps after a retryable response that carried Retry-After: 2,
\* under a policy with initial_delay <= max_delay
SleepsOnRetryAfter2 ==
    /\ pc = "sleep"
    /\ response.retry_after = [kind |-> "seconds", n |-> 2]
    /\ retry_config.initial_delay <= retry_config.max_delay

\* C8 as claimed: the delay slept after a retryable response with
\* Retry-After: 2 is at least 2 seconds at every attempt index.
C8_RetryAfterLowerBound == SleepsOnRetryAfter2 => delay >= 2

\* C8 as amended: that delay is at least min(2, max_delay).
C8_RetryAfterLowerBoundCapped ==
    SleepsOnRetryAfter2 => delay >= Min(2, retry_config.max_delay)

C8_Witness ==
    /\ SleepsOnRetryAfter2
    /\ attempt = 1
    /\ retry_config.initial_delay = 0
    /\ delay = 3

\* no jitter, no Retry-After header so far, every request answered with a
\* retryable status
NoJitterAlwaysRetryable ==
    /\ retry_config.max_jitter = 0
    /\ ~hinted
    /\ statuses # << >>
    /\ requests = Len(statuses)
    /\ \A i \in DOMAIN statuses : statuses[i] \in retry_config.retryable_statuses

\* C9: with max_jitter = 0, no Retry-After and only retryable statuses, sleep
\* number i+1 follows request i+1 with delay min(initial_delay * 2^i,
\* max_delay), and the call ends after max_attempts requests and
\* max_attempts - 1 sleeps with the error of the last status.
C9_DelaySequence ==
    NoJitterAlwaysRetryable =>
        /\ pc = "sleep" =>
              /\ delay = Min(retry_config.initial_delay * (2 ^ attempt), retry_config.max_delay)
              /\ requests = attempt + 1
              /\ sleeps = attempt + 1
        /\ pc = "request" => (requests = attempt /\ sleeps = attempt)
        /\ Done =>
              /\ requests = retry_config.max_attempts
              /\ sleeps = retry_config.max_attempts - 1
              /\ outcome.kind = "RynkoError"
              /\ outcome.status_code = LastStatus

\* C10: a request that raises without a response ends the call at once with
\* that exception: it is the last request, and no sleep follows it.
C10_TransportFailurePropagates ==
    requests # Len(statuses) =>
        /\ Done
        /\ outcome = Raised("TransportError")
        /\ requests = Len(statuses) + 1
        /\ sleeps = Len(statuses)

\* the second request fails after a retryable response, with an attempt left
C10_Witness ==
    /\ outcome = Raised("TransportError")
    /\ Len(statuses) = 1
    /\ statuses[1] \in retry_config.retryable_statuses
    /\ retry_config.max_attempts = 3

\* the bodies response.json() does not decode into a mapping: text that is
\* not JSON, and JSON that is not an object
NonMappingBodies == {"<html>", "[]"}

\* C11: a body that does not decode into a JSON mapping leaves the outcome to
\* the status: a status >= 400 ends in the RynkoError of that status with
\* the default message and code, a retryable one only once max_attempts
\* requests were made; a status < 400 returns the empty mapping; and no
\* exception of another kind is raised for the body.
C11_BodyNeverChangesClassification ==
    (/\ statuses # << >>
     /\ requests = Len(statuses)
     /\ response.body \in NonMappingBodies) =>
        /\ outcome.kind # "AttributeError"
        /\ (Done /\ response.status_code >= 400 /\ outcome.kind # "ValueError") =>
              /\ outcome = RynkoError(HttpMessage(response.status_code), "ApiError",
                                      response.status_code)
              /\ should_retry(retry_config, response.status_code) =>
                    requests = retry_config.max_attempts
        /\ (Done /\ response.status_code < 400) => outcome = Returned(EmptyDict)

\* -------------------------------------- AsyncHttpClient._request_with_retry

\* the local variables of one call of _request_with_retry, with what the call
\* has done so far (requests, sleeps, statuses, hinted) and its end (outcome)
NewFrame ==
    [pc |-> "start", attempt |-> 0, response |-> NoResponse, delay |-> 0,
     last_error |-> NoOutcome, outcome |-> NoOutcome, requests |-> 0, sleeps |-> 0,
     statuses |-> << >>, hinted |-> FALSE]

async_should_retry(config, status_code) == status_code \in config.retryable_statuses

async_handle_response(r) ==
    IF r.status_code >= 400
    THEN ErrorFrom(DecodeOrEmpty(r.body), r.status_code)
    ELSE Returned(DecodeOrEmpty(r.body))

\* an except clause that catches whatever is raised, asyncio.CancelledError
\* included, and retries it while attempts are left
async_retries_base_exception(exc, config, att) == attempts_left(att, config)

\* except RynkoError as e: if self._should_retry(e.status_code) and attempt < max_attempts - 1
\* (asyncio.CancelledError is a BaseException: the clause does not catch it)
async_retries_exception(exc, config, att) ==
    /\ exc.kind = "RynkoError"
    /\ async_should_retry(config, exc.status_code)
    /\ attempts_left(att, config)

\* the statements after the attempt loop
AsyncAfterLoop(last_err) ==
    IF last_err.kind = "RynkoError"
    THEN last_err
    ELSE RynkoError("Request failed after retries", "RetryExhausted", 0)

AsyncFinish(f, result) == [f EXCEPT !.pc = "done", !.outcome = result]

\* max_attempts = ...; last_error = None; for attempt in range(max_attempts):
AsyncStart(f, config) ==
    IF config.max_attempts > 0
    THEN [f EXCEPT !.pc = "request", !.attempt = 0]
    ELSE AsyncFinish([f EXCEPT !.attempt = 0], AsyncAfterLoop(f.last_error))

\* asyncio.sleep(f.delay) is called and awaited
AsyncCallSleep(f) == [f EXCEPT !.sleeps = @ + 1, !.pc = "sleep"]

\* `exc` is raised inside the try block
AsyncTryRaises(f, config, exc, jitter) ==
    IF async_retries_exception(exc, config, f.attempt)
    THEN AsyncCallSleep([f EXCEPT !.last_error = exc,
                                  !.delay = calculate_delay(f.attempt, config, None, jitter)])
    ELSE AsyncFinish(f, exc)

\* return self._handle_response(response)
AsyncReturnHandled(f, config, r, jitter) ==
    LET result == async_handle_response(r) IN
    IF result.kind = "return"
    THEN AsyncFinish(f, result)
    ELSE AsyncTryRaises(f, config, result, jitter)

\* one iteration of the loop, from await self._client.request giving `r` up
\* to the call of asyncio.sleep, the return or the raise
AsyncRequest(f, config, r, jitter) ==
    LET g == [f EXCEPT !.response = r,
                       !.requests = @ + 1,
                       !.statuses = Append(@, r.status_code),
                       !.hinted = (@ \/ r.retry_after.kind # "absent")]
    IN IF async_should_retry(config, r.status_code)
       THEN LET retry_after == parse_retry_after(r.retry_after)
                d == calculate_delay(g.attempt, config, retry_after, jitter)
                err == ErrorFrom(DecodeOrEmpty(r.body), r.status_code)
            IN IF err.kind # "RynkoError"
               THEN AsyncTryRaises([g EXCEPT !.delay = d], config, err, jitter)
               ELSE IF attempts_left(g.attempt, config)
                    THEN AsyncCallSleep([g EXCEPT !.delay = d, !.last_error = err])
                    ELSE AsyncReturnHandled([g EXCEPT !.delay = d, !.last_error = err],
                                            config, r, jitter)
       ELSE AsyncReturnHandled(g, config, r, jitter)

\* await self._client.request raises: no response was obtained
AsyncRequestFails(f, config, jitter) ==
    AsyncTryRaises([f EXCEPT !.requests = @ + 1], config, Raised("TransportError"), jitter)

\* await asyncio.sleep(delay) ends (for a negative length it ends at once and
\* raises nothing), then continue: the next iteration or the end of the loop
AsyncSleep(f, config) ==
    IF f.attempt + 1 < config.max_attempts
    THEN [f EXCEPT !.attempt = @ + 1, !.pc = "request"]
    ELSE AsyncFinish([f EXCEPT !.attempt = @ + 1], AsyncAfterLoop(f.last_error))

\* the task is cancelled while it awaits: asyncio.CancelledError is raised at
\* the await, inside the try block (at "request" the call of
\* self._client.request was made and no response is obtained)
AsyncCancel(f, config) ==
    AsyncTryRaises(IF f.pc = "request" THEN [f EXCEPT !.requests = @ + 1] ELSE f,
                   config, Raised("CancelledError"), 0)

\* the frame of the blocking executor's one call
LoopState ==
    [pc |-> pc, attempt |-> attempt, response |-> response, delay |-> delay,
     last_error |-> last_error, outcome |-> outcome, requests |-> requests,
     sleeps |-> sleeps, statuses |-> statuses, hinted |-> hinted]

\* what a caller and the server see of a call: the requests sent, the sleeps
\* asked for with the length of the current one, and the result or error
Observed(f) ==
    [requests |-> f.requests, sleeps |-> f.sleeps,
     delay |-> IF f.pc = "sleep" THEN f.delay ELSE 0,
     done |-> f.pc = "done", outcome |-> f.outcome]

\* C12: the blocking and the cooperative executor are observationally
\* equivalent: from the same frame, under the same policy, on the same attempt
\* outcome and the same jitter draw, each step of the blocking executor and
\* the step of the cooperative one send the same number of requests, ask for
\* the same delay and deliver the same result or error.
C12_ExecutorsEquivalent ==
    [][/\ Start => Observed(LoopState') = Observed(AsyncStart(LoopState, retry_config))
       /\ \A r \in Responses, jitter \in Jitters(retry_config) :
             Request(r, jitter) =>
                Observed(LoopState') = Observed(AsyncRequest(LoopState, retry_config, r, jitter))
       /\ \A jitter \in Jitters(retry_config) :
             RequestFails(jitter) =>
                Observed(LoopState') = Observed(AsyncRequestFails(LoopState, retry_config, jitter))
       /\ Sleep => Observed(LoopState') = Observed(AsyncSleep(LoopState, retry_config))]_vars

\* ------------------------- concurrent calls through one AsyncHttpClient

\* the largest max_attempts of the policies the concurrent calls run under
MaxAsyncAttempts == 2

\* the calls of _request_with_retry that run concurrently
TaskIds == {1, 2}

AsyncConfigs ==
    [max_attempts : 0..MaxAsyncAttempts,
     initial_delay : {1},
     max_delay : {3},
     max_jitter : {0, 2},
     retryable_statuses : {{503}}]

AsyncResponses ==
    {r \in Responses :
        /\ r.body = "{}"
        /\ r.retry_after \in {[kind |-> "absent", n |-> 0], [kind |-> "seconds", n |-> -1]}}

\* what a call is given at one step: the start, a response, a transport
\* failure, the end of a sleep, or a cancellation while it awaits
Given(kind, r, jitter) == [kind |-> kind, r |-> r, jitter |-> jitter]

\* a frame in which the attempt counter is one attribute of the client,
\* shared by the calls, where the code has a local variable
FrameSharedAttempt(ts, i) == [ts[i] EXCEPT !.attempt = ts[1].attempt]

\* the local variables call i reads: its own
Frame(ts, i) == ts[i]

\* the step of a call on what it is given
AsyncStep(f, config, e) ==
    CASE e.kind = "start" -> AsyncStart(f, config)
      [] e.kind = "response" -> AsyncRequest(f, config, e.r, e.jitter)
      [] e.kind = "failure" -> AsyncRequestFails(f, config, e.jitter)
      [] e.kind = "slept" -> AsyncSleep(f, config)
      [] OTHER -> AsyncCancel(f, config)

\* call i takes a step: it reads self._retry_config and its own frame, and
\* writes its own frame
TaskStep(i, e) ==
    /\ tasks' = [tasks EXCEPT ![i] = AsyncStep(Frame(tasks, i), client.retry_config, e)]
    /\ histories' = [histories EXCEPT ![i] = Append(@, e)]
    /\ UNCHANGED <<client, not_async_vars>>

TaskStart(i) ==
    /\ tasks[i].pc = "start"
    /\ TaskStep(i, Given("start", NoResponse, 0))

TaskRequest(i, r, jitter) ==
    /\ tasks[i].pc = "request"
    /\ TaskStep(i, Given("response", r, jitter))

TaskRequestFails(i, jitter) ==
    /\ tasks[i].pc = "request"
    /\ TaskStep(i, Given("failure", NoResponse, jitter))

TaskSleep(i) ==
    /\ tasks[i].pc = "sleep"
    /\ TaskStep(i, Given("slept", NoResponse, 0))

\* task.cancel() while call i awaits the response or the sleep
TaskCancel(i) ==
    /\ tasks[i].pc \in {"request", "sleep"}
    /\ TaskStep(i, Given(IF tasks[i].pc = "request" THEN "cancel_request" ELSE "cancel_sleep",
                         NoResponse, 0))

AsyncInit ==
    /\ retry_config = DefaultConfig
    /\ LoopIdle
    /\ HeadersIdle
    /\ CalcIdle
    /\ WebhookIdle
    /\ PolicyIdle
    /\ KeyIdle
    /\ WaitIdle
    /\ RenderbaseIdle
    /\ client \in [retry_config : AsyncConfigs, headers : {DefaultHeaders}]
    /\ tasks = [i \in TaskIds |-> NewFrame]
    /\ histories = [i \in TaskIds |-> << >>]

AsyncNext ==
    \E i \in TaskIds :
        \/ TaskStart(i)
        \/ \E r \in AsyncResponses, jitter \in Jitters(client.retry_config) :
              TaskRequest(i, r, jitter)
        \/ \E jitter \in Jitters(client.retry_config) : TaskRequestFails(i, jitter)
        \/ TaskSleep(i)
        \/ TaskCancel(i)

SpecAsync == AsyncInit /\ [][AsyncNext]_vars

\* the frame a call reaches when it runs alone on what it was given
RECURSIVE Replay(_, _)
Replay(h, config) ==
    IF h = << >>
    THEN NewFrame
    ELSE AsyncStep(Replay(SubSeq(h, 1, Len(h) - 1), config), config, h[Len(h)])

CancelKinds == {"cancel_request", "cancel_sleep"}

\* the requests a call was seen to send: those answered or failed, and the
\* one in flight when the call was cancelled
RequestsGiven(h) ==
    Cardinality({k \in DOMAIN h : h[k].kind \in {"response", "failure", "cancel_request"}})

\* the sleeps a call was seen to start: those that ended, and the one pending
\* when the call was cancelled
SleepsGiven(h) ==
    Cardinality({k \in DOMAIN h : h[k].kind \in {"slept", "cancel_sleep"}})

\* C14: a cancellation observed while the cooperative executor awaits the
\* response or the backoff sleep aborts the call: the call ends with
\* CancelledError at that step, and sends no request and starts no sleep
\* after it, whatever number of attempts remains.
C14_CancellationAborts ==
    \A i \in DOMAIN tasks :
        \A k \in DOMAIN histories[i] :
            histories[i][k].kind \in CancelKinds =>
                /\ k = Len(histories[i])
                /\ tasks[i].pc = "done"
                /\ tasks[i].outcome = Raised("CancelledError")
                /\ tasks[i].requests = RequestsGiven(histories[i])
                /\ tasks[i].sleeps = SleepsGiven(histories[i])

\* call 1 was cancelled while its first request was in flight and call 2
\* during the sleep after a 503, each with an attempt left
C14_Witness ==
    /\ client.retry_config.max_attempts = 2
    /\ histories[1] # << >>
    /\ histories[1][Len(histories[1])].kind = "cancel_request"
    /\ tasks[1].attempt = 0
    /\ histories[2] # << >>
    /\ histories[2][Len(histories[2])].kind = "cancel_sleep"
    /\ tasks[2].attempt = 0
    /\ tasks[2].statuses = <<503>>

\* ------------------------------------------------------------ termination

\* the loop under the scheduling the claim of termination assumes: each
\* request is answered or fails and each sleep ends, so a step that can be
\* taken is taken
LiveInit ==
    /\ Init
    /\ retry_config.retryable_statuses \in {{}, {503}, {404, 503}}

SpecLive == LiveInit /\ [][Next]_vars /\ WF_vars(Next)

\* C15: provided each HTTP attempt and each sleep completes, the call
\* eventually returns or raises, and under a policy with max_attempts >= 1
\* it has then and at every moment before sent at most max_attempts requests
\* and started at most max_attempts - 1 sleeps, whatever the server answers.
C15_Terminates ==
    /\ <>Done
    /\ [](retry_config.max_attempts >= 1 =>
            /\ requests <= retry_config.max_attempts
            /\ sleeps <= retry_config.max_attempts - 1)

\* the call has ended having used up the whole allowance
C15_Witness ==
    /\ Done
    /\ retry_config.max_attempts = MaxAttemptsBound
    /\ requests = retry_config.max_attempts
    /\ sleeps = retry_config.max_attempts - 1

\* ------------------------------------------------ verify_webhook_signature

\* the largest timestamp a header carries, and the latest clock reading
MaxTimestamp == 3
MaxNow == 3

Tolerances == {0, 1}
Secrets == {"whsec_a", "whsec_b"}

\* raw request bodies: two JSON objects, JSON that is not an object, and
\* text that is not JSON
Payloads == {"{type:a}", "{type:b}", "[1]", "oops"}

\* a piece of text of the signature header: the decimal digits str(n) gives
\* ("int"), other text int() reads as n, such as " 1", "01" or "+1"
\* ("padded"), the hexdigest of an HMAC ("mac"), ASCII text that is neither
\* ("word"), text with a non-ASCII character ("nonascii"), the empty text
Text(kind, n, secret, payload) ==
    [kind |-> kind, n |-> n, secret |-> secret, payload |-> payload]

EmptyText == Text("empty", 0, "", "")
IntText(n) == Text("int", n, "", "")
PaddedText(n) == Text("padded", n, "", "")
WordText == Text("word", 0, "", "")
NonAsciiText == Text("nonascii", 0, "", "")

\* one element of signature.split(","): key=value when it holds an "=",
\* else the text `key` alone
Element(eq, key, value) == [eq |-> eq, key |-> key, value |-> value]

\* int(text): None stands for ValueError
parse_int(text) ==
    IF text.kind \in {"int", "padded"} THEN Some(text.n) ELSE None

\* a signed payload that leaves the timestamp out
signed_payload_no_timestamp(timestamp, payload) == [n |-> 0, payload |-> payload]

\* f"{timestamp}.{payload}": the digits of the integer, a dot, the payload
\* (the digits hold no dot, so the text determines both parts)
signed_payload(timestamp, payload) == [n |-> timestamp, payload |-> payload]

\* hmac.new(secret, message, hashlib.sha256).hexdigest(), HMAC taken as
\* injective in its key and message
hexdigest(secret, message) == Text("mac", message.n, secret, message.payload)

\* a comparison of the lengths alone: two hexdigests are of one length
compare_digest_lengths(a, b) == a.kind = "mac" /\ b.kind = "mac"

\* a comparison whose result is not looked at
compare_digest_unused(a, b) == TRUE

\* a comparison of the signed messages alone, whatever key signed them
compare_digest_unkeyed(a, b) ==
    /\ a.kind = b.kind
    /\ a.n = b.n
    /\ a.payload = b.payload

\* hmac.compare_digest(a, b) of two ASCII texts
compare_digest(a, b) == a = b

\* the elements of the header that hold an "=" and whose text before the
\* first "=" is `key`
KeyIndexes(signature, key) ==
    {i \in DOMAIN signature : signature[i].eq /\ signature[i].key = key}

\* a key check that rejects only a header holding neither key
missing_keys_both(signature) ==
    KeyIndexes(signature, "t") = {} /\ KeyIndexes(signature, "v1") = {}

\* "t" not in parts or "v1" not in parts
missing_keys(signature) ==
    KeyIndexes(signature, "t") = {} \/ KeyIndexes(signature, "v1") = {}

\* parts[key] of dict(p.split("=", 1) for p in signature.split(",") if "=" in p):
\* the value of the last element with that key (read only after missing_keys;
\* the empty text stands in where the key is absent)
parts(signature, key) ==
    LET idx == KeyIndexes(signature, key) IN
    IF idx = {}
    THEN EmptyText
    ELSE signature[CHOOSE i \in idx : \A j \in idx : j <= i].value

Abs(x) == IF x < 0 THEN -x ELSE x

\* a freshness check that rejects old timestamps only
outside_tolerance_past_only(clock, timestamp, tolerance) == clock - timestamp > tolerance

\* abs(now - timestamp) > tolerance
outside_tolerance(clock, timestamp, tolerance) == Abs(clock - timestamp) > tolerance

\* json.loads(payload): raised stands for json.JSONDecodeError
json_loads(payload) ==
    CASE payload = "{type:a}" -> [raised |-> FALSE, kind |-> "dict", type |-> "a"]
      [] payload = "{type:b}" -> [raised |-> FALSE, kind |-> "dict", type |-> "b"]
      [] payload = "[1]" -> [raised |-> FALSE, kind |-> "list", type |-> ""]
      [] OTHER -> [raised |-> TRUE, kind |-> "", type |-> ""]

NoEvent == [raised |-> TRUE, kind |-> "", type |-> ""]

\* what a call of verify_webhook_signature ends with, and the steps it took
WebhookSignatureError(message, steps) ==
    [kind |-> "WebhookSignatureError", message |-> message, event |-> NoEvent,
     steps |-> steps]

ReturnedEvent(event, steps) ==
    [kind |-> "return", message |-> "", event |-> event, steps |-> steps]

\* hmac.compare_digest raises TypeError for a str with a non-ASCII character
CompareRaises(steps) ==
    [kind |-> "TypeError", message |-> "", event |-> NoEvent, steps |-> steps]

verify_webhook_signature(payload, signature, secret, tolerance, clock) ==
    IF missing_keys(signature)
    THEN WebhookSignatureError("Invalid signature header format", <<"parts">>)
    ELSE
    LET timestamp == parse_int(parts(signature, "t"))
        expected_sig == parts(signature, "v1")
    IN
    IF ~timestamp.some
    THEN WebhookSignatureError("Invalid timestamp in signature", <<"parts", "int">>)
    ELSE
    IF outside_tolerance(clock, timestamp.v, tolerance)
    THEN WebhookSignatureError("Webhook timestamp outside tolerance window",
                               <<"parts", "int", "time">>)
    ELSE
    LET computed_sig == hexdigest(secret, signed_payload(timestamp.v, payload)) IN
    IF expected_sig.kind = "nonascii"
    THEN CompareRaises(<<"parts", "int", "time", "hmac", "compare_digest">>)
    ELSE
    IF ~compare_digest(computed_sig, expected_sig)
    THEN WebhookSignatureError("Invalid signature",
                               <<"parts", "int", "time", "hmac", "compare_digest">>)
    ELSE
    LET event == json_loads(payload) IN
    IF event.raised
    THEN WebhookSignatureError("Invalid webhook payload",
                               <<"parts", "int", "time", "hmac", "compare_digest", "loads">>)
    ELSE ReturnedEvent(event,
                       <<"parts", "int", "time", "hmac", "compare_digest", "loads">>)

\* the header the sender builds for payload P at time T under secret S:
\* "t=T,v1=" + hex(HMAC-SHA256(S, "T.P"))
SignedHeader(S, T, P) ==
    <<Element(TRUE, "t", IntText(T)), Element(TRUE, "v1", Text("mac", T, S, P))>>

\* an element without "=", and elements with other keys
Junk == Element(FALSE, "junk", EmptyText)

\* the headers a call is given: the sender's header h, and h with elements
\* swapped, dropped, replaced by an element without "=", repeated with
\* another value, given another key, or given another value
HeadersFrom(h) ==
    {h, <<h[2], h[1]>>, <<h[1]>>, <<h[2]>>, <<Junk>>,
     <<h[1], Element(FALSE, "v1", EmptyText)>>,
     <<Junk, h[1], h[2]>>, <<h[1], h[2], Junk>>, <<h[1], Junk, h[2]>>,
     <<Element(TRUE, " t", h[1].value), h[2]>>,
     <<h[1], h[2], Element(TRUE, "v0", WordText)>>,
     <<h[1], Element(TRUE, "v1", WordText)>>,
     <<h[1], Element(TRUE, "v1", NonAsciiText)>>,
     <<Element(TRUE, "t", WordText), h[2]>>,
     <<Element(TRUE, "t", PaddedText(h[1].value.n)), h[2]>>}
      \cup {<<h[1], h[2], Element(TRUE, "t", IntText(T))>> : T \in 0..MaxTimestamp}

Signatures ==
    UNION {HeadersFrom(SignedHeader(S, T, P)) :
              S \in Secrets, T \in 0..MaxTimestamp, P \in Payloads}

WebhookInit ==
    /\ retry_config = DefaultConfig
    /\ LoopIdle
    /\ HeadersIdle
    /\ CalcIdle
    /\ AsyncIdle
    /\ WebhookIdle
    /\ PolicyIdle
    /\ KeyIdle
    /\ WaitIdle
    /\ RenderbaseIdle

\* a second passes
Tick ==
    /\ now < MaxNow
    /\ now' = now + 1
    /\ UNCHANGED <<verify_calls, not_webhook_vars>>

\* a verifier that keeps the headers it was given and refuses them afterwards
verify_once(calls, payload, signature, secret, tolerance, clock) ==
    IF \E k \in DOMAIN calls : calls[k].signature = signature
    THEN WebhookSignatureError("Invalid signature", <<"seen">>)
    ELSE verify_webhook_signature(payload, signature, secret, tolerance, clock)

\* the result of a call made after the calls `calls`: the function reads its
\* arguments and the clock, and no module or object state
verify_after(calls, payload, signature, secret, tolerance, clock) ==
    verify_webhook_signature(payload, signature, secret, tolerance, clock)

\* one call of verify_webhook_signature, int(time.time()) being `now`
Verify(payload, signature, secret, tolerance) ==
    /\ verify_calls' =
          Append(verify_calls,
                 [payload |-> payload, signature |-> signature, secret |-> secret,
                  tolerance |-> tolerance, clock |-> now,
                  result |-> verify_after(verify_calls, payload, signature, secret,
                                          tolerance, now)])
    /\ UNCHANGED <<now, not_webhook_vars>>

\* the one call that is followed, on any payload, header, secret and tolerance
FirstVerify ==
    /\ verify_calls = << >>
    /\ \E payload \in Payloads, signature \in Signatures, secret \in Secrets,
          tolerance \in Tolerances : Verify(payload, signature, secret, tolerance)

\* the same payload, header, secret and tolerance are presented once more
VerifyAgain ==
    /\ Len(verify_calls) = 1
    /\ Verify(verify_calls[1].payload, verify_calls[1].signature, verify_calls[1].secret,
              verify_calls[1].tolerance)

WebhookNext ==
    \/ Tick
    \/ FirstVerify
    \/ VerifyAgain

SpecWebhook == WebhookInit /\ [][WebhookNext]_vars

\* the calls whose header is the sender's header for (S, T, P), unchanged
SignedBy(call, S, T, P) == call.signature = SignedHeader(S, T, P)

\* C16: round trip: for every secret S, payload P that is valid JSON and
\* timestamp T with |now - T| <= tolerance, the call with P, the header
\* "t=T,v1=" + hex(HMAC-SHA256(S, "T.P")) and S returns json.loads(P).
C16_RoundTrip ==
    \A k \in DOMAIN verify_calls :
        LET call == verify_calls[k] IN
        \A T \in 0..MaxTimestamp :
            (/\ SignedBy(call, call.secret, T, call.payload)
             /\ ~json_loads(call.payload).raised
             /\ Abs(call.clock - T) <= call.tolerance) =>
                /\ call.result.kind = "return"
                /\ call.result.event = json_loads(call.payload)

\* a payload signed a second ago is verified and its event returned
C16_Witness ==
    \E k \in DOMAIN verify_calls :
        LET call == verify_calls[k] IN
        /\ SignedBy(call, call.secret, 2, call.payload)
        /\ call.clock = 3
        /\ call.tolerance = 1
        /\ call.result.kind = "return"
        /\ call.result.event = [raised |-> FALSE, kind |-> "dict", type |-> "b"]

\* C17: a payload P' presented with the unchanged header the sender built
\* for another payload P, under the verifier's secret and with the timestamp
\* within tolerance, fails with "Invalid signature" and returns no event.
C17_TamperedPayloadRejected ==
    \A k \in DOMAIN verify_calls :
        LET call == verify_calls[k] IN
        \A T \in 0..MaxTimestamp, P \in Payloads :
            (/\ SignedBy(call, call.secret, T, P)
             /\ P # call.payload
             /\ Abs(call.clock - T) <= call.tolerance) =>
                /\ call.result.kind = "WebhookSignatureError"
                /\ call.result.message = "Invalid signature"

\* the object {type:b} presented with the fresh header of {type:a}
C17_Witness ==
    \E k \in DOMAIN verify_calls :
        LET call == verify_calls[k] IN
        /\ SignedBy(call, call.secret, call.clock, "{type:a}")
        /\ call.payload = "{type:b}"
        /\ call.result.message = "Invalid signature"

\* C18: for a header that holds the keys t and v1 and whose t is read as an
\* integer, the call raises "Webhook timestamp outside tolerance window"
\* exactly when |now - t| > tolerance: for a timestamp in the past or in the
\* future, for a right or a wrong v1, and not for |now - t| = tolerance.
C18_ToleranceWindow ==
    \A k \in DOMAIN verify_calls :
        LET call == verify_calls[k]
            t == parse_int(parts(call.signature, "t"))
        IN (~missing_keys(call.signature) /\ t.some) =>
              ((/\ call.result.kind = "WebhookSignatureError"
                /\ call.result.message = "Webhook timestamp outside tolerance window")
               <=> Abs(call.clock - t.v) > call.tolerance)

\* a timestamp two seconds in the future is rejected under tolerance 1
\* although its signature is right
C18_Witness ==
    \E k \in DOMAIN verify_calls :
        LET call == verify_calls[k] IN
        /\ SignedBy(call, call.secret, 3, call.payload)
        /\ call.clock = 1
        /\ call.tolerance = 1
        /\ call.result.message = "Webhook timestamp outside tolerance window"

\* C19: a header without the key v1, or without the key t, yields "Invalid
\* signature header format", and the call has then not read the timestamp,
\* the clock or an HMAC: the parse of the header is its only step.
C19_MissingKeyRejectedFirst ==
    \A k \in DOMAIN verify_calls :
        LET call == verify_calls[k] IN
        (KeyIndexes(call.signature, "v1") = {} \/ KeyIndexes(call.signature, "t") = {}) =>
            /\ call.result.kind = "WebhookSignatureError"
            /\ call.result.message = "Invalid signature header format"
            /\ call.result.steps = <<"parts">>

\* a header holding t alone, the timestamp outside tolerance, is rejected for
\* its format
C19_Witness ==
    \E k \in DOMAIN verify_calls :
        LET call == verify_calls[k] IN
        /\ call.signature = <<Element(TRUE, "t", IntText(0))>>
        /\ call.clock = 3
        /\ call.result.message = "Invalid signature header format"
        /\ call.result.steps = <<"parts">>

ValidlySigned(call) ==
    LET t == parse_int(parts(call.signature, "t")) IN
    /\ KeyIndexes(call.signature, "t") # {}
    /\ KeyIndexes(call.signature, "v1") # {}
    /\ t.some
    /\ Abs(call.clock - t.v) <= call.tolerance
    /\ parts(call.signature, "v1") = Text("mac", t.v, call.secret, call.payload)

\* C21: the payload is parsed as JSON only after the freshness check and
\* the signature comparison have passed: a call whose signature does not
\* match or whose timestamp is outside tolerance does not reach json.loads
\* and does not raise "Invalid webhook payload", whatever the payload.
C21_JsonParsedLast ==
    \A k \in DOMAIN verify_calls :
        LET call == verify_calls[k] IN
        ~ValidlySigned(call) =>
            /\ \A i \in DOMAIN call.result.steps : call.result.steps[i] # "loads"
            /\ call.result.message # "Invalid webhook payload"

\* text that is not JSON is presented under the fresh header of an object:
\* the signature is what is reported, and json.loads is not reached
C21_Witness ==
    \E k \in DOMAIN verify_calls :
        LET call == verify_calls[k] IN
        /\ call.payload = "oops"
        /\ SignedBy(call, call.secret, call.clock, "{type:a}")
        /\ call.result.message = "Invalid signature"
        /\ call.result.steps = <<"parts", "int", "time", "hmac", "compare_digest">>

\* the message of the earliest failing step of a call, in the order header,
\* timestamp, freshness, signature, payload; "" when no step fails
EarliestDefect(call) ==
    LET t == parse_int(parts(call.signature, "t")) IN
    IF KeyIndexes(call.signature, "t") = {} \/ KeyIndexes(call.signature, "v1") = {}
    THEN "Invalid signature header format"
    ELSE IF ~t.some
    THEN "Invalid timestamp in signature"
    ELSE IF Abs(call.clock - t.v) > call.tolerance
    THEN "Webhook timestamp outside tolerance window"
    ELSE IF parts(call.signature, "v1") # Text("mac", t.v, call.secret, call.payload)
    THEN "Invalid signature"
    ELSE IF json_loads(call.payload).raised
    THEN "Invalid webhook payload"
    ELSE ""

\* C22: the five causes of failure (malformed header, malformed timestamp,
\* stale timestamp, signature mismatch, malformed payload) have five
\* distinct messages, and a call reports the message of the earliest step
\* that fails, as a WebhookSignatureError, whatever later steps would fail.
C22_EarliestDefectReported ==
    \A k \in DOMAIN verify_calls :
        LET call == verify_calls[k] IN
        EarliestDefect(call) # "" =>
            /\ call.result.kind = "WebhookSignatureError"
            /\ call.result.message = EarliestDefect(call)

C30_OtherSecretRejected ==
    \A k \in DOMAIN verify_calls :
        LET call == verify_calls[k] IN
        \A S \in Secrets, T \in 0..MaxTimestamp :
            (/\ SignedBy(call, S, T, call.payload)
             /\ S # call.secret
             /\ Abs(call.clock - T) <= call.tolerance) =>
                /\ call.result.kind = "WebhookSignatureError"
                /\ call.result.message = "Invalid signature"

\* the fresh header of an object, signed under whsec_b, is presented to the
\* verifier holding whsec_a
C30_Witness ==
    \E k \in DOMAIN verify_calls :
        LET call == verify_calls[k] IN
        /\ call.secret = "whsec_a"
        /\ call.payload = "{type:a}"
        /\ SignedBy(call, "whsec_b", call.clock, call.payload)
        /\ call.result.message = "Invalid signature"

\* the five messages of WebhookSignatureError the function documents
WebhookMessages ==
    {"Invalid signature header format", "Invalid timestamp in signature",
     "Webhook timestamp outside tolerance window", "Invalid signature",
     "Invalid webhook payload"}

\* C31: for every payload, signature header, secret and tolerance a call of
\* verify_webhook_signature ends in one of two ways: it returns the decoded
\* event, or it raises WebhookSignatureError with one of the five
\* messages; no exception of another type reaches the caller.
C31_TwoKindsOfOutcome ==
    \A k \in DOMAIN verify_calls :
        \/ /\ verify_calls[k].result.kind = "return"
           /\ ~verify_calls[k].result.event.raised
        \/ /\ verify_calls[k].result.kind = "WebhookSignatureError"
           /\ verify_calls[k].result.message \in WebhookMessages

\* C32 as stated: a correctly signed pair verifies on every presentation
\* while now - t <= tolerance, and is rejected on every presentation once
\* now - t > tolerance.
C32_ReplayBoundedByAge ==
    \A k \in DOMAIN verify_calls :
        LET call == verify_calls[k] IN
        \A T \in 0..MaxTimestamp :
            SignedBy(call, call.secret, T, call.payload) =>
                /\ call.clock - T <= call.tolerance =>
                      call.result.message \notin
                          {"Webhook timestamp outside tolerance window", "Invalid signature"}
                /\ call.clock - T > call.tolerance =>
                      call.result.message = "Webhook timestamp outside tolerance window"

\* C32: replay is bounded by the freshness window alone.  With a clock that
\* never goes back, a correctly signed (payload, header) pair passes the
\* freshness and signature checks on every presentation made while
\* |now - t| <= tolerance, first or repeated (its event is returned when
\* the payload is JSON); it is rejected as outside the window on every
\* presentation made while |now - t| > tolerance, and once now - t >
\* tolerance has held at a presentation every later one is rejected.
C32_ReplayBoundedByWindow ==
    \A k \in DOMAIN verify_calls :
        LET call == verify_calls[k] IN
        \A T \in 0..MaxTimestamp :
            SignedBy(call, call.secret, T, call.payload) =>
                /\ Abs(call.clock - T) <= call.tolerance =>
                      IF json_loads(call.payload).raised
                      THEN call.result.message = "Invalid webhook payload"
                      ELSE /\ call.result.kind = "return"
                           /\ call.result.event = json_loads(call.payload)
                /\ Abs(call.clock - T) > call.tolerance =>
                      call.result.message = "Webhook timestamp outside tolerance window"
                /\ \A j \in 1..(k - 1) :
                      (/\ verify_calls[j].signature = call.signature
                       /\ verify_calls[j].clock - T > verify_calls[j].tolerance
                       /\ verify_calls[j].tolerance = call.tolerance) =>
                          /\ call.clock >= verify_calls[j].clock
                          /\ call.result.message = "Webhook timestamp outside tolerance window"

\* a signed event is returned one second after its timestamp under
\* tolerance 1, and the same pair is rejected when presented again at two
\* seconds of age
C32_Witness ==
    /\ Len(verify_calls) = 2
    /\ SignedBy(verify_calls[1], verify_calls[1].secret, 1, "{type:a}")
    /\ verify_calls[1].payload = "{type:a}"
    /\ verify_calls[1].tolerance = 1
    /\ verify_calls[1].clock = 2
    /\ verify_calls[1].result.kind = "return"
    /\ verify_calls[2].clock = 3
    /\ verify_calls[2].result.message = "Webhook timestamp outside tolerance window"

\* ------------------------------------------------- the headers of a request

\* the loop run by a client constructed with any of the callers' headers,
\* under the policies that retry a 503
HeadersInit ==
    /\ retry_config \in {c \in RetryConfig : c.retryable_statuses = {503}}
    /\ LoopIdle
    /\ \E caller \in CallerHeaders : HeadersBuilt(caller)
    /\ CalcIdle
    /\ AsyncIdle
    /\ WebhookIdle
    /\ PolicyIdle
    /\ KeyIdle
    /\ WaitIdle
    /\ RenderbaseIdle

SpecHeaders == HeadersInit /\ [][Next]_vars

\* C24: the headers sent on every attempt are the defaults with the caller's
\* headers merged on top: every default key is sent, a key the caller
\* supplied has the caller's value, a default key the caller did not name
\* keeps its default value, and every attempt of a request sends the same map.
C24_HeadersMerged ==
    /\ Len(sent) = requests
    /\ \A i \in DOMAIN sent :
          /\ DOMAIN default_headers \subseteq DOMAIN sent[i]
          /\ \A k \in DOMAIN init_headers : sent[i][k] = init_headers[k]
          /\ \A k \in DOMAIN default_headers \ DOMAIN init_headers :
                sent[i][k] = default_headers[k]
          /\ sent[i] = sent[1]

\* a client given its own User-Agent and a new key sent both, with the
\* other defaults, on the third attempt of a request
C24_Witness ==
    /\ Len(sent) = 3
    /\ init_headers = [k \in {"X-Request-Id", "User-Agent"} |->
                          IF k = "User-Agent" THEN "app/2" ELSE "r1"]
    /\ sent[3]["User-Agent"] = "app/2"
    /\ sent[3]["X-Request-Id"] = "r1"
    /\ sent[3]["Authorization"] = "Bearer key"
    /\ sent[3]["Content-Type"] = "application/json"

\* ------------------------------------------------------- verify_api_key

\* the calls of verify_api_key that are followed
MaxKeyCalls == 2

\* Renderbase (blocking) and AsyncRenderbase (cooperative)
KeyClients == {"Renderbase", "AsyncRenderbase"}

\* what self._http.get("/api/auth/verify") is given: a response, a transport
\* failure, or, for the cooperative client, the cancellation of its task
\* while it awaits
KeyGivens(kind) ==
    {Given("response", r, 0) :
        r \in {x \in Responses : x.retry_after = [kind |-> "absent", n |-> 0]}}
      \cup {Given("failure", NoResponse, 0)}
      \cup (IF kind = "AsyncRenderbase" THEN {Given("cancel_request", NoResponse, 0)} ELSE {})

RenderbaseError(message, code, status_code) ==
    [kind |-> "RenderbaseError", message |-> message, code |-> code,
     status_code |-> status_code, data |-> EmptyDict]

\* HttpClient._handle_response of the renderbase package
renderbase_handle_response(r) ==
    LET data == DecodeOrEmpty(r.body) IN
    IF r.status_code >= 400
    THEN IF data.type # "dict"
         THEN Raised("AttributeError")
         ELSE RenderbaseError(IF "message" \in data.keys THEN data.message
                                                         ELSE HttpMessage(r.status_code),
                              IF "error" \in data.keys THEN data.error ELSE "ApiError",
                              r.status_code)
    ELSE Returned(data)

\* HttpClient.get of the renderbase package: one request, then _handle_response
renderbase_get(e) ==
    CASE e.kind = "response" -> renderbase_handle_response(e.r)
      [] e.kind = "failure" -> Raised("TransportError")
      [] OTHER -> Raised("CancelledError")

\* response = self._http.get(...); return response.get("data", response)
\* (no body of the model holds the key "data")
me(e) ==
    LET got == renderbase_get(e) IN
    IF got.kind # "return"
    THEN got
    ELSE IF got.data.type # "dict" THEN Raised("AttributeError") ELSE got

\* an except clause for the package's own error class alone
catches_renderbase_error(exc) == exc.kind = "RenderbaseError"

\* except Exception: every exception but a BaseException that is no
\* Exception (asyncio.CancelledError)
catches_exception(exc) == exc.kind # "CancelledError"

\* what verify_api_key ends with: the boolean returned, or the exception
\* that leaves it
KeyReturns(b) == [kind |-> "return", value |-> b, raised |-> ""]
KeyRaises(exc) == [kind |-> "raise", value |-> FALSE, raised |-> exc.kind]

\* try: self.me(); return True / except Exception: return False
verify_api_key(e) ==
    LET result == me(e) IN
    IF result.kind = "return"
    THEN KeyReturns(TRUE)
    ELSE IF catches_exception(result) THEN KeyReturns(FALSE) ELSE KeyRaises(result)

KeyInit ==
    /\ retry_config = DefaultConfig
    /\ LoopIdle
    /\ HeadersIdle
    /\ CalcIdle
    /\ AsyncIdle
    /\ WebhookIdle
    /\ PolicyIdle
    /\ KeyIdle
    /\ WaitIdle
    /\ RenderbaseIdle

\* one call of verify_api_key of a client of kind `kind`
VerifyKey(kind, e) ==
    /\ key_calls' = Append(key_calls, [client |-> kind, given |-> e, me |-> me(e),
                                       result |-> verify_api_key(e)])
    /\ UNCHANGED not_key_vars

KeyNext ==
    /\ Len(key_calls) < MaxKeyCalls
    /\ \E kind \in KeyClients : \E e \in KeyGivens(kind) : VerifyKey(kind, e)

SpecKey == KeyInit /\ [][KeyNext]_vars

\* C25 as stated: verify_api_key returns True exactly when me() returns,
\* returns False when me() raises, and never raises itself.
C25_NeverRaises ==
    \A k \in DOMAIN key_calls :
        /\ key_calls[k].result.kind = "return"
        /\ key_calls[k].result.value <=> key_calls[k].me.kind = "return"

\* C25: verify_api_key returns True exactly when me() returns, returns False
\* when me() raises an Exception (the error of any status >= 400, a
\* transport failure, any other Exception), and lets through nothing but a
\* BaseException that is no Exception: the CancelledError of the
\* cooperative client's cancelled task.
C25_BooleanOverExceptions ==
    \A k \in DOMAIN key_calls :
        LET call == key_calls[k] IN
        /\ call.me.kind = "return" <=> call.result = KeyReturns(TRUE)
        /\ call.me.kind \in {"RenderbaseError", "TransportError", "AttributeError"} =>
              call.result = KeyReturns(FALSE)
        /\ call.result.kind = "raise" =>
              /\ call.client = "AsyncRenderbase"
              /\ call.me.kind = "CancelledError"
              /\ call.result.raised = "CancelledError"

\* a transport failure gave False and a 200 gave True
C25_Witness ==
    /\ Len(key_calls) = 2
    /\ key_calls[1].me.kind = "TransportError"
    /\ key_calls[1].result = KeyReturns(FALSE)
    /\ key_calls[2].given.r.status_code = 200
    /\ key_calls[2].result = KeyReturns(TRUE)

\* the responses so far are k retryable statuses followed by one status
\* >= 400 the policy does not retry, and every request was answered
NonRetryableLast ==
    /\ statuses # << >>
    /\ requests = Len(statuses)
    /\ statuses[Len(statuses)] >= 400
    /\ statuses[Len(statuses)] \notin retry_config.retryable_statuses
    /\ \A i \in 1..(Len(statuses) - 1) : statuses[i] \in retry_config.retryable_statuses

\* C26: a non-retryable status >= 400 after k retryable statuses
\* (k < max_attempts) ends the request at once: k+1 requests were sent, no
\* further one follows, and the error raised is the ApiError carrying the
\* non-retryable status.
C26_FirstNonRetryableWins ==
    NonRetryableLast =>
        /\ Len(statuses) - 1 < retry_config.max_attempts
        /\ Done
        /\ requests = Len(statuses)
        /\ outcome.kind = "RynkoError"
        /\ outcome.status_code = statuses[Len(statuses)]

\* C27: with max_attempts >= 1 the statements after the loop are never
\* reached: a sleep is only ever entered with an iteration left, so every
\* call ends by a return or a raise inside the loop and never with the
\* exhaustion error; that error ("Request failed after retries",
\* "RetryExhausted", status 0) ends a call exactly when max_attempts <= 0,
\* and then no request was sent.
C27_LoopNeverFallsThrough ==
    /\ pc = "sleep" => attempt + 1 < retry_config.max_attempts
    /\ pc = "request" => attempt < retry_config.max_attempts
    /\ Done =>
          (outcome = AfterLoop(NoOutcome) <=> retry_config.max_attempts <= 0)
    /\ outcome.code = "RetryExhausted" =>
          /\ Done
          /\ outcome = AfterLoop(NoOutcome)
          /\ requests = 0
          /\ sleeps = 0

\* every attempt of a policy of three was used, and the call ended with the
\* last response's error, raised inside the loop
C27_Witness ==
    /\ Done
    /\ retry_config.max_attempts = 3
    /\ requests = 3
    /\ sleeps = 2
    /\ attempt = 2
    /\ outcome.kind = "RynkoError"
    /\ outcome.status_code = 503

\* C28: every delay the executor passes to time.sleep is >= 0, whatever
\* Retry-After value the server sent (zero and negative whole numbers
\* included), at every attempt index, under every policy whose durations
\* are non-negative.
C28_SleepNeverNegative ==
    (/\ pc = "sleep"
     /\ retry_config.initial_delay >= 0
     /\ retry_config.max_delay >= 0
     /\ retry_config.max_jitter >= 0) => delay >= 0

\* ------------------------------------------- the policy a client holds

\* the clients that are constructed
MaxClients == 2

\* RetryConfig(): the field defaults of the dataclass
DEFAULT_RETRY_CONFIG ==
    [max_attempts |-> 5, initial_delay |-> 1, max_delay |-> 30, max_jitter |-> 1,
     retryable_statuses |-> {429, 503, 504}]

\* the object DEFAULT_RETRY_CONFIG names: made once, when the module is loaded
DefaultObject == 1

\* the RetryConfig objects a caller passes as retry=
ExplicitPolicies ==
    {DEFAULT_RETRY_CONFIG, [DEFAULT_RETRY_CONFIG EXCEPT !.max_attempts = 2]}

\* the attribute assignments a caller makes on a policy: RetryConfig is a
\* dataclass that is not frozen
PolicyWrites ==
    [field : {"max_attempts"}, value : {1, 2}]
      \cup [field : {"max_delay"}, value : {0}]

\* retry if retry is not None else DEFAULT_RETRY_CONFIG: the object the
\* client refers to (an explicit policy is an object of the caller's)
policy_reference(objs, retry) ==
    IF retry.some THEN Len(objs) + 1 ELSE DefaultObject

\* self._retry_config, as the executor of client c reads it
policy_of(cs, objs, c) == objs[cs[c].retry_config]

PolicyInit ==
    /\ retry_config = DefaultConfig
    /\ LoopIdle
    /\ HeadersIdle
    /\ CalcIdle
    /\ AsyncIdle
    /\ WebhookIdle
    /\ KeyIdle
    /\ WaitIdle
    /\ RenderbaseIdle
    /\ objects = <<DEFAULT_RETRY_CONFIG>>
    /\ http_clients = << >>

\* HttpClient(..., retry=retry) or AsyncHttpClient(..., retry=retry)
NewClient(kind, retry) ==
    /\ Len(http_clients) < MaxClients
    /\ LET ref == policy_reference(objects, retry) IN
       /\ http_clients' = Append(http_clients,
                                 [kind |-> kind, explicit |-> retry.some,
                                  retry_config |-> ref])
       /\ objects' = IF retry.some THEN Append(objects, retry.v) ELSE objects
    /\ UNCHANGED not_policy_vars

\* client._retry_config.<field> = value
SetAttr(c, w) ==
    /\ policy_of(http_clients, objects, c)[w.field] # w.value
    /\ objects' = [objects EXCEPT ![http_clients[c].retry_config][w.field] = w.value]
    /\ UNCHANGED <<http_clients, not_policy_vars>>

\* client._retry_config.retryable_statuses.add(s)
AddStatus(c, s) ==
    /\ s \notin policy_of(http_clients, objects, c).retryable_statuses
    /\ objects' = [objects EXCEPT ![http_clients[c].retry_config].retryable_statuses =
                                      @ \cup {s}]
    /\ UNCHANGED <<http_clients, not_policy_vars>>

\* a change is made to the policy client c holds
ChangePolicy(c) ==
    \/ \E w \in PolicyWrites : SetAttr(c, w)
    \/ \E s \in {404, 500} : AddStatus(c, s)

PolicyNext ==
    \/ \E kind \in {"HttpClient", "AsyncHttpClient"},
          retry \in {None} \cup {Some(p) : p \in ExplicitPolicies} : NewClient(kind, retry)
    \/ \E c \in DOMAIN http_clients : ChangePolicy(c)

SpecPolicy == PolicyInit /\ [][PolicyNext]_vars

\* C29: two clients constructed without an explicit retry policy are not
\* coupled: a change made to the policy one of them holds leaves the policy
\* the other one's executor reads (max_attempts, the delays,
\* retryable_statuses) as it was.
C29_DefaultClientsNotCoupled ==
    [][\A a \in DOMAIN http_clients : \A b \in DOMAIN http_clients \ {a} :
          (/\ ~http_clients[a].explicit
           /\ ~http_clients[b].explicit
           /\ ChangePolicy(a)) =>
              policy_of(http_clients', objects', b) = policy_of(http_clients, objects, b)]_vars

\* --------------------------------------------------- wait_for_completion

\* the calls of get_job that are followed
MaxPolls == 4

\* the timeout argument, in whole seconds
MaxTimeout == 3

\* the poll_interval argument, and the seconds a call of get_job takes
PollIntervals == {0, 1, 2}
Latencies == {0, 1}

\* job["status"] as the service reports it; "" stands for a job without
\* the key
JobStatuses == {"processing", "completed", "failed", ""}

\* a test that lets a job of any status through
is_terminal_any(j) == TRUE

\* job["status"] in ("completed", "failed")
is_terminal(j) == j.status \in {"completed", "failed"}

\* time.time() - start_time > timeout
timed_out(clock, started, limit) == clock - started > limit

WaitReturns(j) == [kind |-> "return", job |-> j]
WaitRaises(kind) == [kind |-> kind, job |-> NoJob]

WaitInit ==
    /\ retry_config = DefaultConfig
    /\ LoopIdle
    /\ HeadersIdle
    /\ CalcIdle
    /\ AsyncIdle
    /\ WebhookIdle
    /\ PolicyIdle
    /\ KeyIdle
    /\ RenderbaseIdle
    /\ resource \in {"DocumentsResource", "AsyncDocumentsResource"}
    /\ poll_interval \in PollIntervals
    /\ timeout \in 0..MaxTimeout
    /\ wait_pc = "start"
    /\ wall \in {0, 1}
    /\ start_time = 0
    /\ job = NoJob
    /\ polls = 0
    /\ naps = 0
    /\ wait_outcome = NoWaitOutcome

WaitFinish(o) ==
    /\ wait_pc' = "done"
    /\ wait_outcome' = o

\* start_time = time.time()
WaitStart ==
    /\ wait_pc = "start"
    /\ start_time' = wall
    /\ wait_pc' = "poll"
    /\ UNCHANGED <<resource, poll_interval, timeout, wall, job, polls, naps, wait_outcome,
                   not_wait_vars>>

\* one iteration of the loop, from get_job returning a job of status
\* `status` after `latency` seconds up to the return, the raise or the call
\* of sleep (job["status"] raises KeyError where the key is absent)
GetJob(status, latency) ==
    /\ wait_pc = "poll"
    /\ polls < MaxPolls
    /\ polls' = polls + 1
    /\ wall' = wall + latency
    /\ job' = [status |-> status, poll |-> polls + 1]
    /\ IF status = ""
       THEN WaitFinish(WaitRaises("KeyError"))
       ELSE IF is_terminal(job')
       THEN WaitFinish(WaitReturns(job'))
       ELSE IF timed_out(wall', start_time, timeout)
       THEN WaitFinish(WaitRaises("TimeoutError"))
       ELSE /\ wait_pc' = "sleep"
            /\ UNCHANGED wait_outcome
    /\ UNCHANGED <<resource, poll_interval, timeout, start_time, naps, not_wait_vars>>

\* get_job raises (the error of a status >= 400, a transport failure)
\* after `latency` seconds: nothing in the loop catches it
GetJobFails(latency) ==
    /\ wait_pc = "poll"
    /\ polls < MaxPolls
    /\ polls' = polls + 1
    /\ wall' = wall + latency
    /\ WaitFinish(WaitRaises("Exception"))
    /\ UNCHANGED <<resource, poll_interval, timeout, start_time, job, naps, not_wait_vars>>

\* time.sleep(poll_interval), or await asyncio.sleep(poll_interval)
WaitSleep ==
    /\ wait_pc = "sleep"
    /\ naps' = naps + 1
    /\ wall' = wall + poll_interval
    /\ wait_pc' = "poll"
    /\ UNCHANGED <<resource, poll_interval, timeout, start_time, job, polls, wait_outcome,
                   not_wait_vars>>

\* the task running the coroutine is cancelled at one of its awaits
WaitCancel ==
    /\ resource = "AsyncDocumentsResource"
    /\ wait_pc \in {"poll", "sleep"}
    /\ WaitFinish(WaitRaises("CancelledError"))
    /\ UNCHANGED <<resource, poll_interval, timeout, wall, start_time, job, polls, naps,
                   not_wait_vars>>

WaitNext ==
    \/ WaitStart
    \/ \E status \in JobStatuses, latency \in Latencies : GetJob(status, latency)
    \/ \E latency \in Latencies : GetJobFails(latency)
    \/ WaitSleep
    \/ WaitCancel

SpecWait == WaitInit /\ [][WaitNext]_vars

C34_WaitsAtMostTimeout ==
    wait_outcome.kind = "TimeoutError" => wall - start_time <= timeout

\* ------------------------------------- the clients of the renderbase package

\* the calls of get/post/put/patch/delete that are followed
MaxHttpCalls == 2

RenderbaseMethods == {"get", "post", "put", "patch", "delete"}

\* the responses the service gives: the statuses the rynko package retries
\* by default among them
RenderbaseStatuses == {200, 404, 429, 503, 504}

RenderbaseResponses ==
    [status_code : RenderbaseStatuses, body : Bodies,
     retry_after : {[kind |-> "absent", n |-> 0]}]

RenderbaseInit ==
    /\ retry_config = DefaultConfig
    /\ LoopIdle
    /\ HeadersIdle
    /\ CalcIdle
    /\ AsyncIdle
    /\ WebhookIdle
    /\ PolicyIdle
    /\ KeyIdle
    /\ WaitIdle
    /\ rb_client \in {"HttpClient", "AsyncHttpClient"}
    /\ rb_pc = "idle"
    /\ rb_method = ""
    /\ rb_calls = 0
    /\ rb_requests = 0
    /\ rb_response = NoResponse
    /\ rb_outcome = NoOutcome

\* get, post, put, patch or delete is called
RenderbaseCall(method) ==
    /\ rb_pc \in {"idle", "done"}
    /\ rb_calls < MaxHttpCalls
    /\ rb_calls' = rb_calls + 1
    /\ rb_method' = method
    /\ rb_response' = NoResponse
    /\ rb_outcome' = NoOutcome
    /\ rb_pc' = "request"
    /\ UNCHANGED <<rb_client, rb_requests, not_rb_vars>>

\* response = self._client.<method>(...); return self._handle_response(response)
RenderbaseRequest(r) ==
    /\ rb_pc = "request"
    /\ rb_requests' = rb_requests + 1
    /\ rb_response' = r
    /\ rb_outcome' = renderbase_handle_response(r)
    /\ rb_pc' = "done"
    /\ UNCHANGED <<rb_client, rb_method, rb_calls, not_rb_vars>>

\* self._client.<method>(...) raises: no response was obtained
RenderbaseRequestFails ==
    /\ rb_pc = "request"
    /\ rb_requests' = rb_requests + 1
    /\ rb_outcome' = Raised("TransportError")
    /\ rb_pc' = "done"
    /\ UNCHANGED <<rb_client, rb_method, rb_calls, rb_response, not_rb_vars>>

RenderbaseNext ==
    \/ \E method \in RenderbaseMethods : RenderbaseCall(method)
    \/ \E r \in RenderbaseResponses : RenderbaseRequest(r)
    \/ RenderbaseRequestFails

SpecRenderbase == RenderbaseInit /\ [][RenderbaseNext]_vars

\* C35: a call of get, post, put, patch or delete of the renderbase
\* package's HttpClient or AsyncHttpClient sends exactly one HTTP request
\* and never sleeps (it ends in the step that obtains the response); a
\* response of any status >= 400, 429, 503 and 504 included, raises the
\* error with that status, and a status < 400 returns the decoded body.
C35_OneRequestNoRetry ==
    /\ rb_pc = "request" => rb_requests = rb_calls - 1
    /\ rb_pc = "done" => rb_requests = rb_calls
    /\ (rb_pc = "done" /\ rb_response # NoResponse) =>
          IF rb_response.status_code >= 400
          THEN /\ rb_outcome.kind = "RenderbaseError"
               /\ rb_outcome.status_code = rb_response.status_code
          ELSE rb_outcome = Returned(DecodeOrEmpty(rb_response.body))

====
